---- MODULE Spec2Model ----
(***************************************************************************)
(* Model of CYON_Development/DISP2.py: the HTTP endpoint                   *)
(* generate_news_endpoint and the pure helpers map_responses and           *)
(* format_body_with_hovers.                                                *)
(*                                                                         *)
(* Python values are tagged records.  A JSON scalar or list is             *)
(* [kind, s] with s its textual content; a JSON object is [kind, fields]   *)
(* with fields a function from its keys to such values.  A text is a       *)
(* sequence of one-character strings; the literal pieces of markup that    *)
(* format_body_with_hovers inserts are single elements of the sequence.    *)
(***************************************************************************)
EXTENDS Naturals, Sequences, FiniteSets, TLC

VARIABLES API_KEY, CLIENT, request, upstream, response, calls,
          data, mapped, text_body, formatted, pc

vars == <<API_KEY, CLIENT, request, upstream, response, calls,
          data, mapped, text_body, formatted, pc>>

(***************************************************************************)
(* Bounds of the model.                                                    *)
(***************************************************************************)
\* Largest number of fields present in a Survey Response given to map_responses.
MaxFields == 2
\* Longest text given to format_body_with_hovers on its own.
MaxLen == 6

(***************************************************************************)
(* Python / JSON values.                                                   *)
(***************************************************************************)
None == [kind |-> "none", s |-> "None"]
JStr(t) == [kind |-> "str", s |-> t]
JNum(t) == [kind |-> "num", s |-> t]
JBool(t) == [kind |-> "bool", s |-> t]
JList(t) == [kind |-> "list", s |-> t]
JDict(f) == [kind |-> "dict", fields |-> f]
EmptyFields == [k \in {} |-> None]

\* Python truth value (the operand of "not" at line 134).
Truthy(v) ==
    CASE v.kind = "none" -> FALSE
      [] v.kind = "dict" -> DOMAIN v.fields # {}
      [] v.kind = "list" -> v.s # "[]"
      [] v.kind = "str" -> v.s # ""
      [] v.kind = "num" -> v.s # "0"
      [] v.kind = "bool" -> v.s = "true"

\* Whether a value can be a dict key: lists and dicts are unhashable.
Hashable(v) == v.kind \notin {"list", "dict"}

(***************************************************************************)
(* STAGE 1: map_responses.                                                 *)
(***************************************************************************)
\* The code -> label tables (the curly apostrophe of "Associate's degree"
\* and "Bachelor's degree" is written as an ASCII apostrophe).
mappings ==
    [DEM1 |-> ("1" :> "Female" @@ "2" :> "Male"
               @@ "3" :> "Non-binary / third gender" @@ "4" :> "Prefer not to say"),
     DEM3 |-> ("1" :> "8th grade or less" @@ "2" :> "Some high school, no diploma"
               @@ "3" :> "High school graduate or GED" @@ "4" :> "Some college, no degree"
               @@ "5" :> "Associate's degree" @@ "6" :> "Bachelor's degree"
               @@ "7" :> "Graduate or professional degree"),
     DEM4 |-> ("1" :> "Under $10,000" @@ "2" :> "$10,000 to $14,999"
               @@ "3" :> "$15,000 to $24,999" @@ "4" :> "$25,000 to $34,999"
               @@ "5" :> "$35,000 to $49,999" @@ "6" :> "$50,000 to $74,999"
               @@ "7" :> "$75,000 to $99,999" @@ "8" :> "$100,000 to $124,999"
               @@ "9" :> "$125,000 to $149,000" @@ "10" :> "$150,000 to $199,999"
               @@ "11" :> "$200,000 or more"),
     DEM5 |-> ("1" :> "Caucasian/White" @@ "2" :> "African American/Black"
               @@ "3" :> "Hispanic/Latino" @@ "4" :> "Asian"
               @@ "5" :> "American Indian/Alaskan Native"
               @@ "6" :> "Native Hawaiian/Pacific Islander" @@ "7" :> "Other"),
     DEM7 |-> ("1" :> "Very liberal" @@ "2" :> "Liberal" @@ "3" :> "Somewhat liberal"
               @@ "4" :> "Moderate" @@ "5" :> "Somewhat conservative"
               @@ "6" :> "Conservative" @@ "7" :> "Very conservative"),
     DEM8 |-> ("1" :> "Democrat" @@ "2" :> "Republican" @@ "3" :> "Independent"),
     VOT2 |-> ("1" :> "The Democratic candidate (Kamala Harris)"
               @@ "2" :> "The Republican candidate (Donald Trump)"
               @@ "3" :> "Another candidate"),
     CCP1_1 |-> ("1" :> "Strongly opposes U.S. withdrawal from Paris Agreement"
               @@ "2" :> "Opposes U.S. withdrawal from Paris Agreement"
               @@ "3" :> "Somewhat opposes U.S. withdrawal from Paris Agreement"
               @@ "4" :> "Neutral on U.S. withdrawal from Paris Agreement"
               @@ "5" :> "Somewhat supports U.S. withdrawal from Paris Agreement"
               @@ "6" :> "Supports U.S. withdrawal from Paris Agreement"
               @@ "7" :> "Strongly supports U.S. withdrawal from Paris Agreement")]

NotSpecified == "Not specified"
NeutralStance == "Neutral on U.S. withdrawal from Paris Agreement"

\* The nine keys of the profile dict, lines 48-56.
ProfileAttributes ==
    {"Gender", "Age", "Education", "Income", "Race/Ethnicity", "Political Stance",
     "Party Affiliation", "2024 Vote", "Paris Agreement Stance"}

\* The survey field each attribute reads.
FieldOf ==
    "Gender" :> "DEM1" @@ "Age" :> "DEM2" @@ "Education" :> "DEM3"
    @@ "Income" :> "DEM4" @@ "Race/Ethnicity" :> "DEM5" @@ "Political Stance" :> "DEM7"
    @@ "Party Affiliation" :> "DEM8" @@ "2024 Vote" :> "VOT2"
    @@ "Paris Agreement Stance" :> "CCP1_1"

\* The attributes translated through a table (every one but Age).
TableAttributes == ProfileAttributes \ {"Age"}

\* Mutant: line 56 given the generic default of the other lines.
DefaultOf_Generic(attr) == NotSpecified

\* The second argument of the outer .get of each line.
DefaultOf(attr) ==
    IF attr = "Paris Agreement Stance" THEN NeutralStance ELSE NotSpecified

\* data.get(key): the value, or None when the key is absent.
DataGet(d, key) == IF key \in DOMAIN d.fields THEN d.fields[key] ELSE None

\* data.get(key, default).
DataGetDefault(d, key, default) ==
    IF key \in DOMAIN d.fields THEN d.fields[key] ELSE default

\* table.get(v, default) on a dict whose keys are strings: a hashable v that
\* is not a str equal to a key (the number 1, None) finds nothing.
TableGet(table, v, default) ==
    IF v.kind = "str" /\ v.s \in DOMAIN table THEN JStr(table[v.s]) ELSE JStr(default)

\* The value of one entry of the profile dict.
ProfileEntry(d, attr) ==
    IF attr = "Age"
    THEN DataGetDefault(d, FieldOf[attr], JStr(NotSpecified))
    ELSE TableGet(mappings[FieldOf[attr]], DataGet(d, FieldOf[attr]), DefaultOf(attr))

\* map_responses(data): the profile, or the exception it raises.  A value
\* without .get (not a dict) raises AttributeError; an unhashable value
\* looked up in a table raises TypeError.
map_responses(d) ==
    IF d.kind # "dict"
    THEN [raised |-> TRUE, exc |-> "AttributeError"]
    ELSE IF \E a \in TableAttributes : ~Hashable(DataGet(d, FieldOf[a]))
    THEN [raised |-> TRUE, exc |-> "TypeError"]
    ELSE [raised |-> FALSE, profile |-> [a \in ProfileAttributes |-> ProfileEntry(d, a)]]

(***************************************************************************)
(* Inputs of map_responses checked on its own: Survey Responses with at    *)
(* most MaxFields fields, whose values are strings (a Survey Response maps *)
(* field codes to string answer codes).                                    *)
(***************************************************************************)
FieldCodes == {"DEM1", "DEM2", "DEM3", "DEM4", "DEM5", "DEM7", "DEM8", "VOT2", "CCP1_1"}
AnswerCodes == {JStr("1"), JStr("4"), JStr("99"), JStr("")}

SurveyResponses ==
    UNION {UNION {{JDict(f) : f \in [ks -> AnswerCodes]} : ks \in {S \in SUBSET FieldCodes : Cardinality(S) = n}}
           : n \in 0..MaxFields}

\* Idle values of the variables a specification does not use.
NoRequest == [method |-> "none"]
NoOutcome == [kind |-> "none"]
NoResponse == [status |-> 0]
NoCalls == [map_responses |-> 0, create_prompt |-> 0, upstream |-> 0,
            format_body_with_hovers |-> 0]
NoResult == [raised |-> FALSE, pending |-> TRUE]

InitMap ==
    /\ API_KEY = None /\ CLIENT = None
    /\ request = NoRequest /\ upstream = NoOutcome /\ response = NoResponse /\ calls = NoCalls
    /\ data \in SurveyResponses
    /\ mapped = NoResult
    /\ text_body = <<>> /\ formatted = <<>>
    /\ pc = "call"

CallMap ==
    /\ pc = "call"
    /\ mapped' = map_responses(data)
    /\ pc' = "done"
    /\ UNCHANGED <<API_KEY, CLIENT, request, upstream, response, calls, data, text_body, formatted>>

NextMap == CallMap

SpecMap == InitMap /\ [][NextMap]_vars

(***************************************************************************)
(* STAGE 3: format_body_with_hovers.                                       *)
(***************************************************************************)
\* The least index k >= from with s[k] = c, or 0 when there is none.
FirstIndex(s, from, c) ==
    IF \E k \in from..Len(s) : s[k] = c
    THEN CHOOSE k \in from..Len(s) : s[k] = c /\ \A m \in from..(k - 1) : s[m] # c
    ELSE 0

\* HOVER_PATTERN, \[([^:]+):([^\]]+)\], tried at index i.  [^:]+ is greedy
\* and must be followed by ":", so group 1 is the text from i+1 up to the
\* first ":" after it, whatever it holds (a "]" or "[" included); [^\]]+ is
\* likewise the text from there up to the first "]".  Both must be non-empty.
\* The result is <<colon, close>>, the indexes of the ":" and of the closing
\* "]", or <<0, 0>> when the pattern does not match at i.
HOVER_PATTERN(s, i) ==
    LET colon == FirstIndex(s, i + 1, ":")
        close == IF colon = 0 THEN 0 ELSE FirstIndex(s, colon + 1, "]")
    IN  IF s[i] = "[" /\ colon > i + 1 /\ close > colon + 1
        THEN <<colon, close>>
        ELSE <<0, 0>>

\* replacer(match): the markup put in place of one match.
replacer(label, tooltip) ==
    <<"<span class=\"source-label\">">> \o label
    \o <<"<span class=\"source-tooltip\">">> \o tooltip
    \o <<"</span></span>">>

\* HOVER_PATTERN.sub(replacer, s) from index i on: leftmost matches, none
\* overlapping, every other character copied.
RECURSIVE PatternSub(_, _)
PatternSub(s, i) ==
    IF i > Len(s) THEN <<>>
    ELSE LET m == HOVER_PATTERN(s, i)
         IN  IF m[2] # 0
             THEN replacer(SubSeq(s, i + 1, m[1] - 1), SubSeq(s, m[1] + 1, m[2] - 1))
                  \o PatternSub(s, m[2] + 1)
             ELSE <<s[i]>> \o PatternSub(s, i + 1)

format_body_with_hovers(t) == PatternSub(t, 1)

\* The characters of the texts: the three the pattern gives a meaning to,
\* and one it does not.
Alphabet == {"[", "]", ":", "a"}

Texts(n) == UNION {[1..k -> Alphabet] : k \in 0..n}

InitFormat ==
    /\ API_KEY = None /\ CLIENT = None
    /\ request = NoRequest /\ upstream = NoOutcome /\ response = NoResponse /\ calls = NoCalls
    /\ data = None /\ mapped = NoResult
    /\ text_body \in Texts(MaxLen)
    /\ formatted = <<>>
    /\ pc = "call"

CallFormat ==
    /\ pc = "call"
    /\ formatted' = format_body_with_hovers(text_body)
    /\ pc' = "done"
    /\ UNCHANGED <<API_KEY, CLIENT, request, upstream, response, calls, data, mapped, text_body>>

NextFormat == CallFormat

SpecFormat == InitFormat /\ [][NextFormat]_vars

(***************************************************************************)
(* Process start, lines 11-18.                                             *)
(***************************************************************************)
TheClient == [kind |-> "client", s |-> "OpenAI"]

\* "if not API_KEY" raises EnvironmentError, which the except clause turns
\* into CLIENT = None; otherwise the client is built.
Startup(key) == IF ~Truthy(key) THEN None ELSE TheClient

\* What os.environ.get("OPENAI_API_KEY") can return.
EnvironmentValues == {None, JStr(""), JStr("sk-test")}

(***************************************************************************)
(* Exceptions.                                                             *)
(***************************************************************************)
\* The direct base class of each exception class the handler can see
\* (openai's hierarchy for the classes imported at line 4).
BaseClass ==
    "RateLimitError" :> "APIStatusError" @@ "APIStatusError" :> "APIError"
    @@ "APITimeoutError" :> "APIConnectionError" @@ "APIConnectionError" :> "APIError"
    @@ "APIError" :> "OpenAIError" @@ "OpenAIError" :> "Exception"
    @@ "EnvironmentError" :> "Exception" @@ "TypeError" :> "Exception"
    @@ "AttributeError" :> "Exception" @@ "IndexError" :> "Exception"
    @@ "JSONDecodeError" :> "ValueError" @@ "ValueError" :> "Exception"

RECURSIVE IsInstance(_, _)
IsInstance(type, class) ==
    \/ type = class
    \/ type \in DOMAIN BaseClass /\ IsInstance(BaseClass[type], class)

Raise(type, msg, c) == [raised |-> TRUE, exc |-> [type |-> type, msg |-> msg], calls |-> c]
Return(resp, c) == [raised |-> FALSE, response |-> resp, calls |-> c]

(***************************************************************************)
(* generate_news_endpoint.                                                 *)
(***************************************************************************)
EmptyBody == [kind |-> "empty"]
jsonify(obj) == [kind |-> "json", obj |-> obj]

\* Mutant: the preflight headers without the permitted method.
PreflightHeaders_NoMethods ==
    "Access-Control-Allow-Origin" :> "*"
    @@ "Access-Control-Allow-Headers" :> "Content-Type"
    @@ "Access-Control-Max-Age" :> "3600"

\* Lines 117-122.
PreflightHeaders ==
    "Access-Control-Allow-Origin" :> "*"
    @@ "Access-Control-Allow-Methods" :> "POST"
    @@ "Access-Control-Allow-Headers" :> "Content-Type"
    @@ "Access-Control-Max-Age" :> "3600"

\* Mutant: the headers dict left empty.
StandardHeaders_Empty == [h \in {} |-> "*"]

\* Line 126.
StandardHeaders == "Access-Control-Allow-Origin" :> "*"

\* request.get_json(silent=True): None when there is no body or it does not
\* parse, the parsed value otherwise (the JSON null parses to None).
get_json(body) == IF body.kind = "json" THEN body.value ELSE None

\* Mutant: the guard of line 130 never taken.
ClientMissing_Never(client) == FALSE

\* Line 130.
ClientMissing(client) == client = None

\* Mutant: the guard of line 134 never taken.
PayloadMissing_Never(request_data) == FALSE

\* Line 134.
PayloadMissing(request_data) == ~Truthy(request_data)

\* Mutant: text that does not parse is read as the empty object.
json_loads_Lenient(content) ==
    CASE content.kind = "none" -> [raised |-> TRUE, type |-> "TypeError"]
      [] content.kind = "notjson" -> [raised |-> FALSE, value |-> JDict(EmptyFields)]
      [] content.kind = "json" -> [raised |-> FALSE, value |-> content.value]

\* json.loads(content), line 158: None is not a string (TypeError), text
\* that is not JSON raises JSONDecodeError.
json_loads(content) ==
    CASE content.kind = "none" -> [raised |-> TRUE, type |-> "TypeError"]
      [] content.kind = "notjson" -> [raised |-> TRUE, type |-> "JSONDecodeError"]
      [] content.kind = "json" -> [raised |-> FALSE, value |-> content.value]

\* A string whose characters are modelled (the body of a reply).
JText(chars) == [kind |-> "str", chars |-> chars]

\* Lines 156-173, after the upstream call returned completion o.
ProcessResponse(o, participant_profile, c) ==
    IF o.choices = 0 THEN Raise("IndexError", "list index out of range", c)
    ELSE LET loaded == json_loads(o.content) IN
    IF loaded.raised THEN Raise(loaded.type, "json.loads failed", c)
    ELSE LET response_data == loaded.value IN
    IF response_data.kind # "dict"
    THEN Raise("AttributeError", "object has no attribute 'get'", c)
    ELSE LET headline == DataGetDefault(response_data, "headline", JStr("No Headline"))
             body_raw == DataGetDefault(response_data, "body",
                                        JText(<<"No content generated.">>))
             c2 == [c EXCEPT !.format_body_with_hovers = @ + 1]
         IN  IF body_raw.kind # "str" \/ "chars" \notin DOMAIN body_raw
             THEN Raise("TypeError", "expected string or bytes-like object", c2)
             ELSE Return([status |-> 200,
                          body |-> jsonify([headline |-> headline,
                                            body |-> JText(format_body_with_hovers(body_raw.chars)),
                                            debug_info |-> [profile |-> participant_profile]]),
                          headers |-> StandardHeaders], c2)

\* The try block, lines 128-173.  o is what the upstream call does if it is
\* made: it raises, or returns a completion.
TryBlock(client, req, o) ==
    IF ClientMissing(client)
    THEN Raise("EnvironmentError",
               "OPENAI_API_KEY is not set or client failed to initialize.", NoCalls)
    ELSE LET request_data == get_json(req.body) IN
    IF PayloadMissing(request_data)
    THEN Return([status |-> 400,
                 body |-> jsonify([error |-> "Missing JSON payload in request."]),
                 headers |-> StandardHeaders], NoCalls)
    ELSE LET m == map_responses(request_data)
             c1 == [NoCalls EXCEPT !.map_responses = 1]
         IN
    IF m.raised THEN Raise(m.exc, "map_responses failed", c1)
    ELSE LET c2 == [c1 EXCEPT !.create_prompt = 1] IN
    IF client = None
    THEN Raise("AttributeError", "'NoneType' object has no attribute 'chat'", c2)
    ELSE LET c3 == [c2 EXCEPT !.upstream = 1] IN
    IF o.kind = "raise" THEN Raise(o.exc, "upstream call failed", c3)
    ELSE ProcessResponse(o, m.profile, c3)

ErrorResponse(status, error, message) ==
    [status |-> status,
     body |-> jsonify([error |-> error, message |-> message]),
     headers |-> StandardHeaders]

\* Mutant: the clause for APIError placed before those for its subclasses.
ExceptClauses_BaseFirst(exc) ==
    CASE IsInstance(exc.type, "APIError") ->
            ErrorResponse(502, "OpenAI API returned an error.", exc.msg)
      [] OTHER ->
            ErrorResponse(500, exc.msg, "An internal server error occurred.")

\* The except clauses, lines 176-202, tried in order.
ExceptClauses(exc) ==
    IF IsInstance(exc.type, "RateLimitError")
    THEN ErrorResponse(429, "OpenAI API rate limit exceeded.", exc.msg)
    ELSE IF IsInstance(exc.type, "APIConnectionError")
    THEN ErrorResponse(503, "Could not connect to OpenAI API.", exc.msg)
    ELSE IF IsInstance(exc.type, "APIError")
    THEN ErrorResponse(502, "OpenAI API returned an error.", exc.msg)
    ELSE IF IsInstance(exc.type, "EnvironmentError")
    THEN ErrorResponse(500, exc.msg, "Server configuration error.")
    ELSE ErrorResponse(500, exc.msg, "An internal server error occurred.")

\* generate_news_endpoint(request): the response and the calls made.
generate_news_endpoint(client, req, o) ==
    IF req.method = "OPTIONS"
    THEN [response |-> [status |-> 204, body |-> EmptyBody, headers |-> PreflightHeaders],
          calls |-> NoCalls]
    ELSE LET t == TryBlock(client, req, o)
         IN  IF t.raised
             THEN [response |-> ExceptClauses(t.exc), calls |-> t.calls]
             ELSE [response |-> t.response, calls |-> t.calls]

(***************************************************************************)
(* Requests and upstream behaviours.                                       *)
(***************************************************************************)
Methods == {"OPTIONS", "POST", "GET"}

\* JSON payloads: the values Python takes for false and their true
\* counterparts, and objects with one survey field (a table-mapped one, Age,
\* or the climate-policy one) holding a known code, an unknown code or a list.
Payloads ==
    {None, JDict(EmptyFields), JList("[]"), JList("[1]"), JStr(""), JStr("x"),
     JNum("0"), JNum("1"), JBool("false"), JBool("true")}
    \cup {JDict(k :> v) : k \in {"DEM1", "DEM2", "CCP1_1"},
                          v \in {JStr("1"), JStr("99"), JList("[1]")}}

Bodies ==
    {[kind |-> "absent"], [kind |-> "notjson"]}
    \cup {[kind |-> "json", value |-> v] : v \in Payloads}

Requests == [method : Methods, body : Bodies]

UpstreamExceptions ==
    {"RateLimitError", "APIConnectionError", "APITimeoutError", "APIStatusError",
     "APIError", "OpenAIError"}

\* Bodies of the article the model may write.
ReplyTexts ==
    {<<"a">>, <<"[", "a">>, <<"[", "a", ":", "a", "]">>,
     <<"[", "a", "]", "[", "a", ":", "a", "]">>}

ReplyObjects ==
    {JDict(h @@ b) :
        h \in {EmptyFields, "headline" :> JStr("H")},
        b \in {EmptyFields, "body" :> JNum("1")} \cup {"body" :> JText(t) : t \in ReplyTexts}}

ReplyContents ==
    {[kind |-> "none"], [kind |-> "notjson"], [kind |-> "json", value |-> JList("[]")]}
    \cup {[kind |-> "json", value |-> v] : v \in ReplyObjects}

Outcomes ==
    {[kind |-> "raise", exc |-> e] : e \in UpstreamExceptions}
    \cup {[kind |-> "reply", choices |-> 0, content |-> [kind |-> "none"]]}
    \cup {[kind |-> "reply", choices |-> 1, content |-> c] : c \in ReplyContents}

Init ==
    /\ API_KEY \in EnvironmentValues
    /\ CLIENT = Startup(API_KEY)
    /\ request = NoRequest /\ upstream = NoOutcome
    /\ response = NoResponse /\ calls = NoCalls
    /\ data = None /\ mapped = NoResult
    /\ text_body = <<>> /\ formatted = <<>>
    /\ pc = "serve"

\* Whether handling req gets as far as the upstream call (what the call
\* then does cannot change that).
ReachesUpstream(client, req) ==
    generate_news_endpoint(client, req, [kind |-> "raise", exc |-> "APIError"]).calls.upstream > 0

\* One request handled from its arrival to its response.  The upstream
\* behaviour is drawn only for a request that reaches the call.
Serve ==
    /\ pc = "serve"
    /\ \E req \in Requests :
          \E o \in IF ReachesUpstream(CLIENT, req) THEN Outcomes ELSE {NoOutcome} :
             LET r == generate_news_endpoint(CLIENT, req, o)
             IN  /\ request' = req
                 /\ upstream' = o
                 /\ response' = r.response
                 /\ calls' = r.calls
    /\ UNCHANGED <<API_KEY, CLIENT, data, mapped, text_body, formatted, pc>>

Next == Serve

Spec == Init /\ [][Next]_vars

(***************************************************************************)
(* Claims about generate_news_endpoint, checked under Spec.  In every      *)
(* state but the initial ones, request, upstream, response and calls are   *)
(* those of the request handled last.                                      *)
(***************************************************************************)
Responded == request.method # "none"
Preflight == request.method = "OPTIONS"
NonPreflight == Responded /\ ~Preflight

\* The keys of the JSON object a response carries (none for an empty body).
BodyKeys(resp) == IF resp.body.kind = "json" THEN DOMAIN resp.body.obj ELSE {}

HasHeader(resp, name, value) ==
    name \in DOMAIN resp.headers /\ resp.headers[name] = value

\* The request body is absent or does not parse as JSON.
NoJsonBody(req) == req.body.kind \in {"absent", "notjson"}

\* C1 as stated: every POST whose body is absent or not parseable as JSON
\* gets status 400 with an "error" key, and no upstream call is attempted.
C1_BadBodyGets400 ==
    (request.method = "POST" /\ NoJsonBody(request)) =>
        /\ response.status = 400
        /\ "error" \in BodyKeys(response)
        /\ calls.upstream = 0

\* C1 as amended: when the credential was obtained at startup (CLIENT is
\* not None), every POST whose body is absent or not parseable as JSON gets
\* status 400 with an "error" key, and no upstream call is attempted.
C1_BadBodyGets400WhenConfigured ==
    (CLIENT # None /\ request.method = "POST" /\ NoJsonBody(request)) =>
        /\ response.status = 400
        /\ "error" \in BodyKeys(response)
        /\ calls.upstream = 0

\* A POST without a body was answered 400 by a configured process.
C1_Witness ==
    /\ CLIENT # None
    /\ request.method = "POST"
    /\ request.body.kind = "absent"
    /\ response.status = 400

\* C2: every error response (status neither 200 nor 204) has a status in
\* {400, 429, 500, 502, 503} and a JSON body with both an "error" and a
\* "message" key.
C2_ErrorBodyHasErrorAndMessage ==
    (Responded /\ response.status \notin {200, 204}) =>
        /\ response.status \in {400, 429, 500, 502, 503}
        /\ {"error", "message"} \subseteq BodyKeys(response)

\* The upstream call returned a reply that parsed as a JSON object.
ReplyIsObject ==
    /\ upstream.kind = "reply"
    /\ upstream.choices > 0
    /\ upstream.content.kind = "json"
    /\ upstream.content.value.kind = "dict"

ReplyFields == upstream.content.value.fields

\* C4 as stated: a 200 response is sent only when the upstream reply parsed
\* as JSON and supplied the headline and the body, and it carries that
\* headline, the annotated form of that body and the derived profile; every
\* other response to a non-preflight request has an error status and no
\* headline or body.
C4_NoPartialResults ==
    NonPreflight =>
        IF response.status = 200
        THEN /\ ReplyIsObject
             /\ {"headline", "body"} \subseteq DOMAIN ReplyFields
             /\ response.body.obj.headline = ReplyFields["headline"]
             /\ response.body.obj.body
                    = JText(format_body_with_hovers(ReplyFields["body"].chars))
             /\ response.body.obj.debug_info.profile
                    = map_responses(get_json(request.body)).profile
        ELSE /\ response.status \in {400, 429, 500, 502, 503}
             /\ BodyKeys(response) \cap {"headline", "body"} = {}

\* C4 as amended: a 200 response is sent only when the upstream reply parsed
\* as a JSON object; it carries the reply's headline, or "No Headline" when
\* the reply supplies none, the annotated form of the reply's body, or of
\* "No content generated." when the reply supplies none, and the derived
\* profile under debug_info.profile; every other response to a
\* non-preflight request has an error status and no headline or body.
C4_SuccessOnlyFromParsedReply ==
    NonPreflight =>
        IF response.status = 200
        THEN /\ ReplyIsObject
             /\ BodyKeys(response) = {"headline", "body", "debug_info"}
             /\ response.body.obj.headline
                    = IF "headline" \in DOMAIN ReplyFields THEN ReplyFields["headline"]
                      ELSE JStr("No Headline")
             /\ response.body.obj.body
                    = IF "body" \in DOMAIN ReplyFields
                      THEN JText(format_body_with_hovers(ReplyFields["body"].chars))
                      ELSE JText(<<"No content generated.">>)
             /\ response.body.obj.debug_info.profile
                    = map_responses(get_json(request.body)).profile
        ELSE /\ response.status \in {400, 429, 500, 502, 503}
             /\ BodyKeys(response) \cap {"headline", "body"} = {}

\* A reply with a headline and a body holding a marker was turned into a
\* 200 response.
C4_Witness ==
    /\ response.status = 200
    /\ ReplyIsObject
    /\ {"headline", "body"} \subseteq DOMAIN ReplyFields
    /\ ReplyFields["body"].chars = <<"[", "a", ":", "a", "]">>
    /\ response.body.obj.body.chars # ReplyFields["body"].chars

\* C5: when the upstream call made for a request fails, exactly one call
\* was made and the status follows the failure: a rate-limit rejection
\* gives 429, a connection failure (a timeout included) 503, any other
\* upstream API error 502; each of these responses has an "error" and a
\* "message" key and the cross-origin header.
C5_UpstreamFailureStatus ==
    (upstream.kind = "raise") =>
        /\ calls.upstream = 1
        /\ upstream.exc = "RateLimitError" => response.status = 429
        /\ upstream.exc \in {"APIConnectionError", "APITimeoutError"}
               => response.status = 503
        /\ upstream.exc \in {"APIStatusError", "APIError"} => response.status = 502
        /\ {"error", "message"} \subseteq BodyKeys(response)
        /\ HasHeader(response, "Access-Control-Allow-Origin", "*")

\* A rate-limit rejection was answered 429.
C5_Witness ==
    /\ upstream.kind = "raise"
    /\ upstream.exc = "RateLimitError"
    /\ calls.upstream = 1
    /\ response.status = 429

\* C6: every OPTIONS request gets status 204, an empty body and the three
\* CORS headers, whatever the payload and whether or not the credential was
\* obtained, and neither the mapper, the prompt builder, the upstream call
\* nor the formatter is invoked.
C6_PreflightAlways204 ==
    Preflight =>
        /\ response.status = 204
        /\ response.body = [kind |-> "empty"]
        /\ HasHeader(response, "Access-Control-Allow-Origin", "*")
        /\ HasHeader(response, "Access-Control-Allow-Methods", "POST")
        /\ HasHeader(response, "Access-Control-Allow-Headers", "Content-Type")
        /\ calls.map_responses = 0 /\ calls.create_prompt = 0
        /\ calls.upstream = 0 /\ calls.format_body_with_hovers = 0
        /\ upstream = NoOutcome

\* An OPTIONS request with a JSON payload was answered 204 by a process
\* that has no credential.
C6_Witness ==
    /\ Preflight
    /\ CLIENT = None
    /\ request.body.kind = "json"
    /\ response.status = 204

\* C7: a process started without the credential (no value, or an empty
\* one) runs with CLIENT = None, and whenever CLIENT is None every
\* non-preflight request gets status 500 with an "error" and a "message"
\* key, and no upstream call is attempted.
C7_NoCredentialGets500 ==
    /\ (API_KEY = None \/ API_KEY = JStr("")) => CLIENT = None
    /\ (CLIENT = None /\ NonPreflight) =>
          /\ response.status = 500
          /\ {"error", "message"} \subseteq BodyKeys(response)
          /\ calls.upstream = 0
          /\ upstream = NoOutcome

\* A process without a credential answered a POST carrying a survey
\* response with 500.
C7_Witness ==
    /\ API_KEY = None
    /\ CLIENT = None
    /\ request.method = "POST"
    /\ request.body.kind = "json"
    /\ request.body.value.kind = "dict"
    /\ response.status = 500

\* C9: every response, on every outcome path (204, 200, 400, 429, 500,
\* 502, 503), has the header Access-Control-Allow-Origin: *.
C9_EveryResponseAllowsAnyOrigin ==
    Responded =>
        /\ response.status \in {204, 200, 400, 429, 500, 502, 503}
        /\ HasHeader(response, "Access-Control-Allow-Origin", "*")

\* A successful response carries the header.
C9_Witness ==
    /\ response.status = 200
    /\ HasHeader(response, "Access-Control-Allow-Origin", "*")

\* C10: with the credential configured, 400 is returned only when the
\* request body is absent or not parseable as JSON, and every non-preflight
\* request whose body parses as JSON (the empty object included) is passed
\* to map_responses and leads to exactly one upstream call.
C10_JsonBodyReachesUpstream ==
    (CLIENT # None /\ NonPreflight) =>
        /\ response.status = 400 => NoJsonBody(request)
        /\ request.body.kind = "json" =>
              (calls.map_responses = 1 /\ calls.upstream = 1)

(***************************************************************************)
(* Claim C3 (format_body_with_hovers, checked under SpecFormat).           *)
(***************************************************************************)
\* A well-formed marker as the claim defines it begins at index i: "[", a
\* label of one or more characters other than ":" and "]", ":", a tooltip of
\* one or more characters other than "]", "]".  The result is as for
\* HOVER_PATTERN.
WellFormedMarker(s, i) ==
    LET colon == FirstIndex(s, i + 1, ":")
        close == IF colon = 0 THEN 0 ELSE FirstIndex(s, colon + 1, "]")
    IN  IF /\ s[i] = "[" /\ colon > i + 1 /\ close > colon + 1
           /\ \A k \in (i + 1)..(colon - 1) : s[k] # "]"
        THEN <<colon, close>>
        ELSE <<0, 0>>

\* The text with exactly its well-formed markers rewritten, in order, and
\* every other character kept.
RECURSIVE RewriteWellFormed(_, _)
RewriteWellFormed(s, i) ==
    IF i > Len(s) THEN <<>>
    ELSE LET m == WellFormedMarker(s, i)
         IN  IF m[2] # 0
             THEN replacer(SubSeq(s, i + 1, m[1] - 1), SubSeq(s, m[1] + 1, m[2] - 1))
                  \o RewriteWellFormed(s, m[2] + 1)
             ELSE <<s[i]>> \o RewriteWellFormed(s, i + 1)

\* C3: format_body_with_hovers rewrites exactly the well-formed
\* [label:tooltip] occurrences, in order, and leaves every other character
\* as it was; in particular a text in which no well-formed marker begins is
\* returned unchanged.
C3_RewritesExactlyWellFormed ==
    pc = "done" =>
        /\ formatted = RewriteWellFormed(text_body, 1)
        /\ (\A i \in 1..Len(text_body) : WellFormedMarker(text_body, i)[2] = 0)
               => formatted = text_body

(***************************************************************************)
(* Claim C8 (map_responses, checked under SpecMap).                        *)
(***************************************************************************)
\* A field's code is missing or unrecognized: the Survey Response has no
\* such field, or its value is the key of no table of that attribute (Age
\* has no table, so no code of Age is the key of one).
MissingCode(d, attr) == FieldOf[attr] \notin DOMAIN d.fields
UnrecognizedCode(d, attr) ==
    /\ FieldOf[attr] \in DOMAIN d.fields
    /\ \/ attr = "Age"
       \/ d.fields[FieldOf[attr]].kind # "str"
       \/ d.fields[FieldOf[attr]].s \notin DOMAIN mappings[FieldOf[attr]]

\* The default string the specification documents for an attribute.
DocumentedDefault(attr) ==
    IF attr = "Paris Agreement Stance"
    THEN JStr("Neutral on U.S. withdrawal from Paris Agreement")
    ELSE JStr("Not specified")

\* C8 as stated: for every Survey Response map_responses returns, without
\* raising, a profile with exactly the nine attributes, in which each of the
\* nine attributes whose code is missing or unrecognized has its documented
\* default ("Not specified" for eight attributes, the neutral label for Paris
\* Agreement Stance).
C8_AllNineDefault ==
    pc = "done" =>
        /\ ~mapped.raised
        /\ DOMAIN mapped.profile = ProfileAttributes
        /\ \A a \in ProfileAttributes :
              (MissingCode(data, a) \/ UnrecognizedCode(data, a))
                  => mapped.profile[a] = DocumentedDefault(a)

\* C8 as amended: for every Survey Response map_responses returns, without
\* raising, a profile with exactly the nine attributes; each of the eight
\* table-mapped attributes whose code is missing or unrecognized has its
\* documented default; Age is "Not specified" when its code is missing and
\* is the submitted code itself, whatever it is, when it is present.
C8_DefaultsAndAgePassThrough ==
    pc = "done" =>
        /\ ~mapped.raised
        /\ DOMAIN mapped.profile = ProfileAttributes
        /\ \A a \in TableAttributes :
              (MissingCode(data, a) \/ UnrecognizedCode(data, a))
                  => mapped.profile[a] = DocumentedDefault(a)
        /\ MissingCode(data, "Age") => mapped.profile["Age"] = JStr("Not specified")
        /\ ~MissingCode(data, "Age") => mapped.profile["Age"] = data.fields["DEM2"]

\* A Survey Response with an unrecognized gender code, an age code and no
\* climate-policy code has been mapped.
C8_Witness ==
    /\ pc = "done"
    /\ UnrecognizedCode(data, "Gender")
    /\ ~MissingCode(data, "Age")
    /\ MissingCode(data, "Paris Agreement Stance")
    /\ mapped.profile["Gender"] = JStr("Not specified")
    /\ mapped.profile["Paris Agreement Stance"] = DocumentedDefault("Paris Agreement Stance")

====
